---- MODULE Spec2Model ----
(***************************************************************************)
(* Paginated backfill maintenance jobs of convex/maintenance.ts: the       *)
(* summary backfill and the fingerprint backfill, each a page fetcher, a   *)
(* batch orchestrator and a patch applier, behind admin-only entry points. *)
(***************************************************************************)
EXTENDS Integers, Sequences, FiniteSets, TLC

VARIABLES
  db,         \* the document store: skills, skillVersions, skillVersionFingerprints
  now,        \* the clock read by Date.now()
  inv,        \* per invocation slot: the orchestrator's locals and position
  scheduled,  \* jobs enqueued on the scheduler, not yet started
  calls,      \* number of entry-point calls made so far
  lastCall,   \* the latest entry-point call and its outcome
  prev,       \* the latest finished invocation: its arguments and result
  probe       \* the latest direct call of a helper: its arguments and result

vars == <<db, now, inv, scheduled, calls, lastCall, prev, probe>>

----------------------------------------------------------------------------
(* Program constants *)

DEFAULT_BATCH_SIZE == 50
MAX_BATCH_SIZE == 200
DEFAULT_MAX_BATCHES == 20
MAX_MAX_BATCHES == 200
\* .take(20): at most this many fingerprint entries are read per version
TAKE_LIMIT == 20

(* Bounds of the model *)

\* rows of the paginated table (skills, skillVersions) in an initial store
MaxRows == 2
\* entry-point calls in one behaviour
MaxCalls == 2
\* batchSize and maxBatches arguments are drawn from 0..MaxArg
MaxArg == 2
\* numbers handed to clampInt directly: numerators in -MaxNum..MaxNum,
\* denominators in 0..MaxDen, bounds in -MaxBound..MaxBound
MaxNum == 5
MaxDen == 3
MaxBound == 2

----------------------------------------------------------------------------
(* Optional values: undefined / null is None, a present value x is Some(x) *)

None == <<>>
Some(x) == <<x>>

Min2(a, b) == IF a <= b THEN a ELSE b
Max2(a, b) == IF a >= b THEN a ELSE b

MinOf(S) == CHOOSE x \in S : \A y \in S : x <= y

Take(s, n) == SubSeq(s, 1, Min2(n, Len(s)))

Range(s) == {s[k] : k \in DOMAIN s}

----------------------------------------------------------------------------
(* Numbers: a JavaScript number is num/den; den = 0 stands for the         *)
(* non-finite values (num > 0: +Infinity, num < 0: -Infinity, 0: NaN).     *)

IntNum(n) == [num |-> n, den |-> 1]

\* Math.trunc on a finite number: truncation toward zero
Trunc(x) == IF x.num >= 0 THEN x.num \div x.den ELSE -((-x.num) \div x.den)

\* clampInt rounding down (Math.floor) instead of toward zero
clampIntFloor(value, min, max) ==
  IF value.den = 0
    THEN min
    ELSE Min2(max, Max2(min, value.num \div value.den))

clampInt(value, min, max) ==
  IF value.den = 0
    THEN min
    ELSE Min2(max, Max2(min, Trunc(value)))

\* args.x ?? DEFAULT
OrDefault(opt, default) == IF opt = None THEN IntNum(default) ELSE opt[1]

\* Boolean(args.dryRun)
ToBoolean(opt) == IF opt = None THEN FALSE ELSE opt[1]

----------------------------------------------------------------------------
(* External pure functions *)

\* path.toLowerCase() on the paths that occur in the model
ToLowerCase(path) ==
  CASE path = "SKILL.md" -> "skill.md"
    [] path = "Skills.MD" -> "skills.md"
    [] OTHER -> path

PathCode(path) ==
  CASE path = "SKILL.md" -> 1
    [] path = "Skills.MD" -> 2
    [] OTHER -> 3

ShaCode(sha) ==
  CASE sha = "a" -> 1
    [] sha = "b" -> 2
    [] OTHER -> 3

\* hashSkillFiles: a stable, order- and content-sensitive digest of the
\* {path, sha256} list (a positional code, injective on the lists used here)
RECURSIVE hashSkillFiles(_)
hashSkillFiles(files) ==
  IF files = <<>>
    THEN 1
    ELSE hashSkillFiles(SubSeq(files, 1, Len(files) - 1)) * 16
           + PathCode(files[Len(files)].path) * 4
           + ShaCode(files[Len(files)].sha256)

\* blob storage: storage id -> README text; "blobGone" has no blob
Blobs == [b \in {"blobA", "blobB"} |-> IF b = "blobA" THEN "readmeA" ELSE "readmeB"]

\* ctx.storage.get(id) followed by blob.text()
StorageGet(id) == IF id \in DOMAIN Blobs THEN Some(Blobs[id]) ELSE None

\* what the README parser derives from a README text
DerivedSummary(text) == IF text = "readmeA" THEN Some("Alpha") ELSE None
DerivedParsed(text) == IF text = "readmeA" THEN "ParsedA" ELSE "ParsedB"

\* buildSkillSummaryBackfillPatch: an optional {summary?, parsed?} patch,
\* empty when the current values already equal what the README derives
buildSkillSummaryBackfillPatch(readmeText, currentSummary, currentParsed) ==
  [summary |-> IF DerivedSummary(readmeText) # None
                    /\ DerivedSummary(readmeText) # currentSummary
                 THEN DerivedSummary(readmeText) ELSE None,
   parsed |-> IF DerivedParsed(readmeText) # currentParsed
                THEN Some(DerivedParsed(readmeText)) ELSE None]

\* JavaScript truthiness of an optional string
Truthy(opt) == opt # None /\ opt[1] # ""

----------------------------------------------------------------------------
(* The document store *)

\* ctx.db.get(id): the document with that id, or null
DbGet(table, id) ==
  LET hits == SelectSeq(table, LAMBDA d : d.id = id)
  IN IF hits = <<>> THEN None ELSE Some(hits[1])

\* the documents after the cursor, in ascending order
AfterCursor(table, cursor) ==
  SelectSeq(table, LAMBDA d : cursor = None \/ d.id > cursor[1])

\* paginate(): the page of at most numItems documents after the cursor
PageOf(table, cursor, numItems) == Take(AfterCursor(table, cursor), numItems)

\* paginate(): the continue cursor addresses the last document read
ContinueCursor(table, cursor, numItems) ==
  LET page == PageOf(table, cursor, numItems)
  IN IF page = <<>>
       THEN (IF cursor = None THEN Some(0) ELSE cursor)
       ELSE Some(page[Len(page)].id)

\* paginate(): isDone is true when the read ran off the end of the table and
\* false when documents remain; when the page stops exactly on the last
\* document the store may report either
IsDoneChoices(table, cursor, numItems) ==
  LET remaining == Len(AfterCursor(table, cursor))
  IN IF remaining < numItems THEN {TRUE}
     ELSE IF remaining > numItems THEN {FALSE}
     ELSE BOOLEAN

----------------------------------------------------------------------------
(* Summary backfill: page fetcher *)

\* version.files.find(path is skill.md or skills.md, case-insensitively)
FindReadme(files) ==
  LET hits == {k \in DOMAIN files :
                 ToLowerCase(files[k].path) \in {"skill.md", "skills.md"}}
  IN IF hits = {} THEN None ELSE Some(files[MinOf(hits)])

\* the classification with an absent version record reported as a missing readme
SkillItemVersionGoneAsNoReadme(d, skill) ==
  LET blank == [kind |-> "ok", skillId |-> skill.id, versionId |-> 0,
                skillSummary |-> None, versionParsed |-> "", readmeStorageId |-> ""]
  IN IF skill.latestVersionId = None
       THEN [blank EXCEPT !.kind = "missingLatestVersion"]
       ELSE LET version == DbGet(d.skillVersions, skill.latestVersionId[1])
                readmeFile == IF version = None THEN None ELSE FindReadme(version[1].files)
            IN IF readmeFile = None
                 THEN [blank EXCEPT !.kind = "missingReadme",
                                    !.versionId = skill.latestVersionId[1]]
                 ELSE [blank EXCEPT !.versionId = version[1].id,
                                    !.skillSummary = skill.summary,
                                    !.versionParsed = version[1].parsed,
                                    !.readmeStorageId = readmeFile[1].storageId]

\* the classification of one skill of the page
SkillItem(d, skill) ==
  LET blank == [kind |-> "ok", skillId |-> skill.id, versionId |-> 0,
                skillSummary |-> None, versionParsed |-> "", readmeStorageId |-> ""]
  IN IF skill.latestVersionId = None
       THEN [blank EXCEPT !.kind = "missingLatestVersion"]
       ELSE LET version == DbGet(d.skillVersions, skill.latestVersionId[1])
            IN IF version = None
                 THEN [blank EXCEPT !.kind = "missingVersionDoc",
                                    !.versionId = skill.latestVersionId[1]]
                 ELSE LET readmeFile == FindReadme(version[1].files)
                      IN IF readmeFile = None
                           THEN [blank EXCEPT !.kind = "missingReadme",
                                              !.versionId = version[1].id]
                           ELSE [blank EXCEPT !.versionId = version[1].id,
                                              !.skillSummary = skill.summary,
                                              !.versionParsed = version[1].parsed,
                                              !.readmeStorageId = readmeFile[1].storageId]

getSkillBackfillPageInternal(d, cursor, batchSizeArg, done) ==
  LET batchSize == clampInt(OrDefault(batchSizeArg, DEFAULT_BATCH_SIZE), 1, MAX_BATCH_SIZE)
      page == PageOf(d.skills, cursor, batchSize)
  IN [items |-> [k \in DOMAIN page |-> SkillItem(d, page[k])],
      cursor |-> ContinueCursor(d.skills, cursor, batchSize),
      isDone |-> done]

(* Summary backfill: patch applier *)

\* the applier with the version patch left out
applySkillBackfillPatchSummaryOnly(d, t, args) ==
  LET skills1 == IF args.summary # None
                   THEN [k \in DOMAIN d.skills |->
                           IF d.skills[k].id = args.skillId
                             THEN [d.skills[k] EXCEPT !.summary = args.summary,
                                                      !.updatedAt = t]
                             ELSE d.skills[k]]
                   ELSE d.skills
  IN [db |-> [d EXCEPT !.skills = skills1], result |-> "ok"]

\* the applier bumping updatedAt on every call, summary or not
applySkillBackfillPatchAlwaysTouching(d, t, args) ==
  LET skills1 == [k \in DOMAIN d.skills |->
                    IF d.skills[k].id = args.skillId
                      THEN [d.skills[k] EXCEPT
                              !.summary = IF args.summary # None THEN args.summary ELSE @,
                              !.updatedAt = t]
                      ELSE d.skills[k]]
      versions1 == IF args.parsed # None
                     THEN [k \in DOMAIN d.skillVersions |->
                             IF d.skillVersions[k].id = args.versionId
                               THEN [d.skillVersions[k] EXCEPT !.parsed = args.parsed[1]]
                               ELSE d.skillVersions[k]]
                     ELSE d.skillVersions
  IN [db |-> [d EXCEPT !.skills = skills1, !.skillVersions = versions1],
      result |-> "ok"]

applySkillBackfillPatchInternal(d, t, args) ==
  LET skills1 == IF args.summary # None
                   THEN [k \in DOMAIN d.skills |->
                           IF d.skills[k].id = args.skillId
                             THEN [d.skills[k] EXCEPT !.summary = args.summary,
                                                      !.updatedAt = t]
                             ELSE d.skills[k]]
                   ELSE d.skills
      versions1 == IF args.parsed # None
                     THEN [k \in DOMAIN d.skillVersions |->
                             IF d.skillVersions[k].id = args.versionId
                               THEN [d.skillVersions[k] EXCEPT !.parsed = args.parsed[1]]
                               ELSE d.skillVersions[k]]
                     ELSE d.skillVersions
  IN [db |-> [d EXCEPT !.skills = skills1, !.skillVersions = versions1],
      result |-> "ok"]

----------------------------------------------------------------------------
(* Fingerprint backfill: page fetcher *)

\* the work item built for one version of the page
FingerprintItem(d, version) ==
  LET existingEntries ==
        Take(SelectSeq(d.skillVersionFingerprints,
                       LAMBDA e : e.versionId = version.id), TAKE_LIMIT)
  IN [skillId |-> version.skillId,
      versionId |-> version.id,
      versionFingerprint |-> version.fingerprint,
      files |-> [k \in DOMAIN version.files |->
                   [path |-> version.files[k].path, sha256 |-> version.files[k].sha256]],
      existingEntries |-> [k \in DOMAIN existingEntries |->
                   [id |-> existingEntries[k].id,
                    fingerprint |-> existingEntries[k].fingerprint]]]

EntryFingerprints(item) == {e.fingerprint : e \in Range(item.existingEntries)}

\* the fetcher without its filter: every version of the page is emitted
NeedsFingerprintWorkAlways(item) == TRUE

\* the fetcher emits a version unless none of the three conditions holds
NeedsFingerprintWork(item) ==
  LET hasAnyEntry == Len(item.existingEntries) > 0
      entryFingerprints == EntryFingerprints(item)
      hasFingerprintMismatch ==
        /\ item.versionFingerprint # None
        /\ hasAnyEntry
        /\ (Cardinality(entryFingerprints) # 1
              \/ item.versionFingerprint[1] \notin entryFingerprints)
      needsFingerprintField == item.versionFingerprint = None
      needsFingerprintEntry == ~hasAnyEntry
  IN needsFingerprintField \/ needsFingerprintEntry \/ hasFingerprintMismatch

getSkillFingerprintBackfillPageInternal(d, cursor, batchSizeArg, done) ==
  LET batchSize == clampInt(OrDefault(batchSizeArg, DEFAULT_BATCH_SIZE), 1, MAX_BATCH_SIZE)
      page == PageOf(d.skillVersions, cursor, batchSize)
      candidates == [k \in DOMAIN page |-> FingerprintItem(d, page[k])]
  IN [items |-> SelectSeq(candidates, NeedsFingerprintWork),
      cursor |-> ContinueCursor(d.skillVersions, cursor, batchSize),
      isDone |-> done]

(* Fingerprint backfill: patch applier *)

EntryIds(d) == {e.id : e \in Range(d.skillVersionFingerprints)}

applySkillFingerprintBackfillPatchInternal(d, t, args) ==
  LET version == DbGet(d.skillVersions, args.versionId)
  IN IF version = None
       THEN [db |-> d, result |-> "missingVersion"]
     ELSE IF args.replaceEntries /\ ~(Range(args.existingEntryIds) \subseteq EntryIds(d))
       \* ctx.db.delete of a document that no longer exists throws: the
       \* mutation is rolled back and the error reaches the orchestrator
       THEN [db |-> d, result |-> "threw"]
     ELSE
       LET versions1 ==
             IF args.patchVersion
               THEN [k \in DOMAIN d.skillVersions |->
                       IF d.skillVersions[k].id = args.versionId
                         THEN [d.skillVersions[k] EXCEPT !.fingerprint = Some(args.fingerprint)]
                         ELSE d.skillVersions[k]]
               ELSE d.skillVersions
           kept == SelectSeq(d.skillVersionFingerprints,
                             LAMBDA e : e.id \notin Range(args.existingEntryIds))
           entries1 ==
             IF args.replaceEntries
               THEN Append(kept, [id |-> d.nextId,
                                  skillId |-> version[1].skillId,
                                  versionId |-> version[1].id,
                                  fingerprint |-> args.fingerprint,
                                  createdAt |-> t])
               ELSE d.skillVersionFingerprints
       IN [db |-> [d EXCEPT !.skillVersions = versions1,
                            !.skillVersionFingerprints = entries1,
                            !.nextId = IF args.replaceEntries THEN d.nextId + 1 ELSE d.nextId],
           result |-> "ok"]

----------------------------------------------------------------------------
(* The orchestrators: locals of one invocation *)

SummaryZero ==
  [skillsScanned |-> 0, skillsPatched |-> 0, versionsPatched |-> 0,
   missingLatestVersion |-> 0, missingReadme |-> 0, missingStorageBlob |-> 0]

FingerprintZero ==
  [versionsScanned |-> 0, versionsPatched |-> 0,
   fingerprintsInserted |-> 0, fingerprintMismatches |-> 0]

IncompleteError == "Backfill incomplete (maxBatches reached)"

Finished == {"done", "failed", "threw"}

\* the record kept of a finished invocation
Outcome(r, outcome) ==
  [job |-> r.job, dryRun |-> r.dryRun, batchSize |-> r.batchSize,
   maxBatches |-> r.maxBatches, outcome |-> outcome, stats |-> r.totals]

NoOutcome ==
  Outcome([job |-> "none", dryRun |-> FALSE, batchSize |-> 0, maxBatches |-> 0,
           totals |-> FingerprintZero], "none")

\* the handler's prologue: argument defaults and clamps, zeroed totals,
\* the null cursor; the fields after error are history: the store at the
\* start, the outcome of the invocation that finished last before this one,
\* the page fetches and patch applications made, and the items handled
StartInvocation(job, args, d, last) ==
  [pc |-> "fetch",
   job |-> job,
   dryRun |-> ToBoolean(args.dryRun),
   batchSize |-> clampInt(OrDefault(args.batchSize, DEFAULT_BATCH_SIZE), 1, MAX_BATCH_SIZE),
   maxBatches |-> clampInt(OrDefault(args.maxBatches, DEFAULT_MAX_BATCHES), 1, MAX_MAX_BATCHES),
   i |-> 0,
   cursor |-> None,
   isDone |-> FALSE,
   items |-> <<>>,
   idx |-> 0,
   totals |-> IF job = "summaries" THEN SummaryZero ELSE FingerprintZero,
   error |-> "",
   startDb |-> d,
   prior |-> last,
   fetches |-> 0,
   applies |-> 0,
   trace |-> <<>>]

IdleInvocation(d) ==
  [StartInvocation("none", [dryRun |-> None, batchSize |-> None, maxBatches |-> None],
                   d, NoOutcome)
     EXCEPT !.pc = "idle"]

\* `if (dryRun) continue`: a dry run skips the patch application
DryRunSkipsWriteNever(dryRun) == FALSE

DryRunSkipsWrite(dryRun) == dryRun

(* Summary backfill orchestrator: one item of the page *)

\* the step with skillsPatched raised for every patch, summary or not
SummaryStepCountingEveryPatch(dryRun, totals, item, d, t) ==
  LET scanned == [totals EXCEPT !.skillsScanned = @ + 1]
      quiet(tot) == [totals |-> tot, called |-> FALSE, db |-> d, result |-> "none",
                     patch |-> [summary |-> None, parsed |-> None]]
  IN IF item.kind \in {"missingLatestVersion", "missingVersionDoc"}
       THEN quiet([scanned EXCEPT !.missingLatestVersion = @ + 1])
     ELSE IF item.kind = "missingReadme"
       THEN quiet([scanned EXCEPT !.missingReadme = @ + 1])
     ELSE IF StorageGet(item.readmeStorageId) = None
       THEN quiet([scanned EXCEPT !.missingStorageBlob = @ + 1])
     ELSE
       LET readmeText == StorageGet(item.readmeStorageId)[1]
           patch == buildSkillSummaryBackfillPatch(readmeText, item.skillSummary,
                                                   item.versionParsed)
           counted == [scanned EXCEPT
                         !.skillsPatched = @ + 1,
                         !.versionsPatched = IF patch.parsed # None THEN @ + 1 ELSE @]
           applied == applySkillBackfillPatchInternal(d, t,
                        [skillId |-> item.skillId, versionId |-> item.versionId,
                         summary |-> patch.summary, parsed |-> patch.parsed])
       IN IF ~Truthy(patch.summary) /\ patch.parsed = None
            THEN [quiet(scanned) EXCEPT !.patch = patch]
          ELSE IF DryRunSkipsWrite(dryRun)
            THEN [quiet(counted) EXCEPT !.patch = patch]
          ELSE [totals |-> counted, called |-> TRUE, db |-> applied.db,
                result |-> applied.result, patch |-> patch]

SummaryStep(dryRun, totals, item, d, t) ==
  LET scanned == [totals EXCEPT !.skillsScanned = @ + 1]
      quiet(tot) == [totals |-> tot, called |-> FALSE, db |-> d, result |-> "none",
                     patch |-> [summary |-> None, parsed |-> None]]
  IN IF item.kind \in {"missingLatestVersion", "missingVersionDoc"}
       THEN quiet([scanned EXCEPT !.missingLatestVersion = @ + 1])
     ELSE IF item.kind = "missingReadme"
       THEN quiet([scanned EXCEPT !.missingReadme = @ + 1])
     ELSE IF StorageGet(item.readmeStorageId) = None
       THEN quiet([scanned EXCEPT !.missingStorageBlob = @ + 1])
     ELSE
       LET readmeText == StorageGet(item.readmeStorageId)[1]
           patch == buildSkillSummaryBackfillPatch(readmeText, item.skillSummary,
                                                   item.versionParsed)
           counted == [scanned EXCEPT
                         !.skillsPatched = IF Truthy(patch.summary) THEN @ + 1 ELSE @,
                         !.versionsPatched = IF patch.parsed # None THEN @ + 1 ELSE @]
           applied == applySkillBackfillPatchInternal(d, t,
                        [skillId |-> item.skillId, versionId |-> item.versionId,
                         summary |-> patch.summary, parsed |-> patch.parsed])
       IN IF ~Truthy(patch.summary) /\ patch.parsed = None
            THEN [quiet(scanned) EXCEPT !.patch = patch]
          ELSE IF DryRunSkipsWrite(dryRun)
            THEN [quiet(counted) EXCEPT !.patch = patch]
          ELSE [totals |-> counted, called |-> TRUE, db |-> applied.db,
                result |-> applied.result, patch |-> patch]

(* Fingerprint backfill orchestrator: one item of the page *)

\* the verdict with a mismatch counted for a version without entries too
FingerprintVerdictMismatchWithoutEntry(item) ==
  LET fingerprint == hashSkillFiles(item.files)
      existingFingerprints == EntryFingerprints(item)
      hasAnyEntry == Len(item.existingEntries) > 0
      entryIsCorrect == /\ hasAnyEntry
                        /\ Cardinality(existingFingerprints) = 1
                        /\ fingerprint \in existingFingerprints
      versionFingerprintIsCorrect == item.versionFingerprint = Some(fingerprint)
  IN [fingerprint |-> fingerprint,
      mismatch |-> ~entryIsCorrect,
      shouldPatchVersion |-> ~versionFingerprintIsCorrect,
      shouldReplaceEntries |-> ~entryIsCorrect]

\* the verdict patching the version only when it has no stored fingerprint
FingerprintVerdictPatchWhenAbsent(item) ==
  LET fingerprint == hashSkillFiles(item.files)
      existingFingerprints == EntryFingerprints(item)
      hasAnyEntry == Len(item.existingEntries) > 0
      entryIsCorrect == /\ hasAnyEntry
                        /\ Cardinality(existingFingerprints) = 1
                        /\ fingerprint \in existingFingerprints
  IN [fingerprint |-> fingerprint,
      mismatch |-> hasAnyEntry /\ ~entryIsCorrect,
      shouldPatchVersion |-> item.versionFingerprint = None,
      shouldReplaceEntries |-> ~entryIsCorrect]

FingerprintVerdict(item) ==
  LET fingerprint == hashSkillFiles(item.files)
      existingFingerprints == EntryFingerprints(item)
      hasAnyEntry == Len(item.existingEntries) > 0
      entryIsCorrect == /\ hasAnyEntry
                        /\ Cardinality(existingFingerprints) = 1
                        /\ fingerprint \in existingFingerprints
      versionFingerprintIsCorrect == item.versionFingerprint = Some(fingerprint)
  IN [fingerprint |-> fingerprint,
      mismatch |-> hasAnyEntry /\ ~entryIsCorrect,
      shouldPatchVersion |-> ~versionFingerprintIsCorrect,
      shouldReplaceEntries |-> ~entryIsCorrect]

\* the step with the dry-run `continue` placed before the would-patch counters
FingerprintStepCountsOnWrite(dryRun, totals, item, d, t) ==
  LET v == FingerprintVerdict(item)
      scanned == [totals EXCEPT
                    !.versionsScanned = @ + 1,
                    !.fingerprintMismatches = IF v.mismatch THEN @ + 1 ELSE @]
      counted == [scanned EXCEPT
                    !.versionsPatched = IF v.shouldPatchVersion THEN @ + 1 ELSE @,
                    !.fingerprintsInserted = IF v.shouldReplaceEntries THEN @ + 1 ELSE @]
      applied == applySkillFingerprintBackfillPatchInternal(d, t,
                   [versionId |-> item.versionId,
                    fingerprint |-> v.fingerprint,
                    patchVersion |-> v.shouldPatchVersion,
                    replaceEntries |-> v.shouldReplaceEntries,
                    existingEntryIds |->
                      IF v.shouldReplaceEntries
                        THEN [k \in DOMAIN item.existingEntries |-> item.existingEntries[k].id]
                        ELSE <<>>])
  IN IF (~v.shouldPatchVersion /\ ~v.shouldReplaceEntries) \/ DryRunSkipsWrite(dryRun)
       THEN [totals |-> scanned, called |-> FALSE, db |-> d, result |-> "none", patch |-> v]
     ELSE [totals |-> counted, called |-> TRUE, db |-> applied.db,
           result |-> applied.result, patch |-> v]

FingerprintStep(dryRun, totals, item, d, t) ==
  LET v == FingerprintVerdict(item)
      scanned == [totals EXCEPT
                    !.versionsScanned = @ + 1,
                    !.fingerprintMismatches = IF v.mismatch THEN @ + 1 ELSE @]
      counted == [scanned EXCEPT
                    !.versionsPatched = IF v.shouldPatchVersion THEN @ + 1 ELSE @,
                    !.fingerprintsInserted = IF v.shouldReplaceEntries THEN @ + 1 ELSE @]
      applied == applySkillFingerprintBackfillPatchInternal(d, t,
                   [versionId |-> item.versionId,
                    fingerprint |-> v.fingerprint,
                    patchVersion |-> v.shouldPatchVersion,
                    replaceEntries |-> v.shouldReplaceEntries,
                    existingEntryIds |->
                      IF v.shouldReplaceEntries
                        THEN [k \in DOMAIN item.existingEntries |-> item.existingEntries[k].id]
                        ELSE <<>>])
  IN IF ~v.shouldPatchVersion /\ ~v.shouldReplaceEntries
       THEN [totals |-> scanned, called |-> FALSE, db |-> d, result |-> "none", patch |-> v]
     ELSE IF DryRunSkipsWrite(dryRun)
       THEN [totals |-> counted, called |-> FALSE, db |-> d, result |-> "none", patch |-> v]
     ELSE [totals |-> counted, called |-> TRUE, db |-> applied.db,
           result |-> applied.result, patch |-> v]

----------------------------------------------------------------------------
(* Actions of one invocation p *)

\* ctx.runQuery(getSkillBackfillPageInternal): one atomic page fetch
FetchSkillPage(p) ==
  LET r == inv[p] IN
  /\ r.pc = "fetch"
  /\ r.job = "summaries"
  /\ \E done \in IsDoneChoices(db.skills, r.cursor, r.batchSize) :
       LET page == getSkillBackfillPageInternal(db, r.cursor, Some(IntNum(r.batchSize)), done)
       IN inv' = [inv EXCEPT ![p] = [r EXCEPT !.pc = "items",
                                              !.cursor = page.cursor,
                                              !.isDone = page.isDone,
                                              !.items = page.items,
                                              !.idx = 1,
                                              !.fetches = @ + 1]]
  /\ UNCHANGED <<db, now, scheduled, calls, lastCall, prev, probe>>

\* ctx.runQuery(getSkillFingerprintBackfillPageInternal)
FetchFingerprintPage(p) ==
  LET r == inv[p] IN
  /\ r.pc = "fetch"
  /\ r.job = "fingerprints"
  /\ \E done \in IsDoneChoices(db.skillVersions, r.cursor, r.batchSize) :
       LET page == getSkillFingerprintBackfillPageInternal(db, r.cursor,
                                                           Some(IntNum(r.batchSize)), done)
       IN inv' = [inv EXCEPT ![p] = [r EXCEPT !.pc = "items",
                                              !.cursor = page.cursor,
                                              !.isDone = page.isDone,
                                              !.items = page.items,
                                              !.idx = 1,
                                              !.fetches = @ + 1]]
  /\ UNCHANGED <<db, now, scheduled, calls, lastCall, prev, probe>>

\* the loop body with the applier's result inspected: a result other than
\* ok ends the invocation
ProcessItemCheckingResult(p, job, step) ==
  LET r == inv[p] IN
  /\ db' = step.db
  /\ now' = IF step.called THEN now + 1 ELSE now
  /\ inv' = [inv EXCEPT ![p] =
       [r EXCEPT !.totals = step.totals,
                 !.idx = @ + 1,
                 !.applies = IF step.called THEN @ + 1 ELSE @,
                 !.pc = IF step.result \in {"threw", "missingVersion"}
                          THEN "threw" ELSE "items",
                 !.trace = Append(@, [id |-> IF job = "summaries"
                                               THEN r.items[r.idx].skillId
                                               ELSE r.items[r.idx].versionId,
                                      before |-> r.totals,
                                      after |-> step.totals,
                                      patch |-> step.patch,
                                      called |-> step.called,
                                      result |-> step.result])]]
  /\ UNCHANGED <<scheduled, calls, lastCall, prev, probe>>

\* the body of `for (const item of page.items)`, patch application included
ProcessItem(p, job, step) ==
  LET r == inv[p] IN
  /\ db' = step.db
  /\ now' = IF step.called THEN now + 1 ELSE now
  /\ inv' = [inv EXCEPT ![p] =
       [r EXCEPT !.totals = step.totals,
                 !.idx = @ + 1,
                 !.applies = IF step.called THEN @ + 1 ELSE @,
                 !.pc = IF step.result = "threw" THEN "threw" ELSE "items",
                 !.trace = Append(@, [id |-> IF job = "summaries"
                                               THEN r.items[r.idx].skillId
                                               ELSE r.items[r.idx].versionId,
                                      before |-> r.totals,
                                      after |-> step.totals,
                                      patch |-> step.patch,
                                      called |-> step.called,
                                      result |-> step.result])]]
  /\ UNCHANGED <<scheduled, calls, lastCall, prev, probe>>

ProcessSkillItem(p) ==
  LET r == inv[p] IN
  /\ r.pc = "items"
  /\ r.job = "summaries"
  /\ r.idx <= Len(r.items)
  /\ ProcessItem(p, "summaries", SummaryStep(r.dryRun, r.totals, r.items[r.idx], db, now))

ProcessFingerprintItem(p) ==
  LET r == inv[p] IN
  /\ r.pc = "items"
  /\ r.job = "fingerprints"
  /\ r.idx <= Len(r.items)
  /\ ProcessItem(p, "fingerprints",
                 FingerprintStep(r.dryRun, r.totals, r.items[r.idx], db, now))

PageFinished(r) == r.pc = "items" /\ r.idx > Len(r.items)

\* the loop going on to the next page without the maxBatches limit
NextBatchUnlimited(p) ==
  LET r == inv[p] IN
  /\ PageFinished(r)
  /\ ~r.isDone
  /\ inv' = [inv EXCEPT ![p] = [r EXCEPT !.pc = "fetch", !.i = @ + 1]]
  /\ UNCHANGED <<db, now, scheduled, calls, lastCall, prev, probe>>

\* the next page asked for from the start of the table again
NextBatchRestarting(p) ==
  LET r == inv[p] IN
  /\ PageFinished(r)
  /\ ~r.isDone
  /\ r.i + 1 < r.maxBatches
  /\ inv' = [inv EXCEPT ![p] = [r EXCEPT !.pc = "fetch", !.i = @ + 1, !.cursor = None]]
  /\ UNCHANGED <<db, now, scheduled, calls, lastCall, prev, probe>>

\* `if (isDone) break` not taken, i++ and i < maxBatches: the next page
NextBatch(p) ==
  LET r == inv[p] IN
  /\ PageFinished(r)
  /\ ~r.isDone
  /\ r.i + 1 < r.maxBatches
  /\ inv' = [inv EXCEPT ![p] = [r EXCEPT !.pc = "fetch", !.i = @ + 1]]
  /\ UNCHANGED <<db, now, scheduled, calls, lastCall, prev, probe>>

\* the return without the `if (!isDone) throw` before it
ReturnStatsRegardless(p) ==
  LET r == inv[p] IN
  /\ PageFinished(r)
  /\ r.isDone \/ r.i + 1 >= r.maxBatches
  /\ inv' = [inv EXCEPT ![p] = [r EXCEPT !.pc = "done"]]
  /\ prev' = Outcome(r, "ok")
  /\ UNCHANGED <<db, now, scheduled, calls, lastCall, probe>>

\* `if (isDone) break`, then `return { ok: true, stats: totals }`
ReturnStats(p) ==
  LET r == inv[p] IN
  /\ PageFinished(r)
  /\ r.isDone
  /\ inv' = [inv EXCEPT ![p] = [r EXCEPT !.pc = "done"]]
  /\ prev' = Outcome(r, "ok")
  /\ UNCHANGED <<db, now, scheduled, calls, lastCall, probe>>

\* the throw undoing the patches applied by the invocation
ThrowIncompleteRollingBack(p) ==
  LET r == inv[p] IN
  /\ PageFinished(r)
  /\ ~r.isDone
  /\ r.i + 1 >= r.maxBatches
  /\ inv' = [inv EXCEPT ![p] = [r EXCEPT !.pc = "failed", !.error = IncompleteError]]
  /\ prev' = Outcome(r, "error")
  /\ db' = r.startDb
  /\ UNCHANGED <<now, scheduled, calls, lastCall, probe>>

\* the loop ran out of batches: `if (!isDone) throw new ConvexError(...)`
ThrowIncomplete(p) ==
  LET r == inv[p] IN
  /\ PageFinished(r)
  /\ ~r.isDone
  /\ r.i + 1 >= r.maxBatches
  /\ inv' = [inv EXCEPT ![p] = [r EXCEPT !.pc = "failed", !.error = IncompleteError]]
  /\ prev' = Outcome(r, "error")
  /\ UNCHANGED <<db, now, scheduled, calls, lastCall, probe>>

----------------------------------------------------------------------------
(* Entry points and the scheduler *)

Procs == {"main", "overlap"}

Callers == {"anonymous", "user", "admin"}

\* requireUserFromAction: passes for an authenticated caller
requireUserFromAction(caller) == caller # "anonymous"

\* assertRole(user, roles): passes when the user's role is one of roles
assertRole(caller, roles) == caller \in roles

\* the gate without the role check
AuthorizedAnyUser(caller) == requireUserFromAction(caller)

\* the gate every entry point runs first
Authorized(caller) == requireUserFromAction(caller) /\ assertRole(caller, {"admin"})

Jobs == {"summaries", "fingerprints"}

DryRunArgs == {None, Some(TRUE), Some(FALSE)}

\* batchSize / maxBatches as passed by a caller: both left out, or both given
BatchArgs ==
  {[batchSize |-> None, maxBatches |-> None]}
    \cup {[batchSize |-> Some(IntNum(a)), maxBatches |-> Some(IntNum(b))] :
            a \in 0..MaxArg, b \in 0..MaxArg}

RunArgs == {[dryRun |-> dr, batchSize |-> ba.batchSize, maxBatches |-> ba.maxBatches] :
              dr \in DryRunArgs, ba \in BatchArgs}

\* no invocation is in progress in slot p and none is waiting on the scheduler
Quiescent(p) == inv[p].pc \in {"idle"} \cup Finished /\ scheduled = <<>>

\* one operator works on one job with one batch setting: a later call
\* repeats the job and batch arguments of the invocation that finished last
Repeats(job, args) ==
  \/ prev.job = "none"
  \/ /\ prev.job = job
     /\ prev.batchSize = StartInvocation(job, args, db, prev).batchSize
     /\ prev.maxBatches = StartInvocation(job, args, db, prev).maxBatches

\* the gate throws: the call ends there
Rejected(entry, job, caller) ==
  /\ calls' = calls + 1
  /\ lastCall' = [entry |-> entry, job |-> job, caller |-> caller, accepted |-> FALSE]
  /\ UNCHANGED <<db, now, inv, scheduled, prev, probe>>

\* action backfillSkillSummaries / backfillSkillFingerprints: the gate, then
\* ctx.runAction of the internal job with the caller's arguments
RunEntryPoint(p, job, caller) ==
  /\ Quiescent(p)
  /\ calls < MaxCalls
  /\ IF Authorized(caller)
       THEN \E args \in RunArgs :
              /\ Repeats(job, args)
              /\ inv' = [inv EXCEPT ![p] = StartInvocation(job, args, db, prev)]
              /\ calls' = calls + 1
              /\ lastCall' = [entry |-> "run", job |-> job, caller |-> caller,
                              accepted |-> TRUE]
              /\ UNCHANGED <<db, now, scheduled, prev, probe>>
       ELSE Rejected("run", job, caller)

\* action scheduleBackfillSkill...: the gate, then scheduler.runAfter(0, job,
\* {dryRun, DEFAULT_BATCH_SIZE, DEFAULT_MAX_BATCHES})
ScheduleEntryPoint(p, job, caller) ==
  /\ Quiescent(p)
  /\ calls < MaxCalls
  /\ IF Authorized(caller)
       THEN \E dryRunArg \in DryRunArgs :
              /\ prev.job \in {"none", job}
              /\ scheduled' = Append(scheduled,
                   [job |-> job,
                    args |-> [dryRun |-> Some(ToBoolean(dryRunArg)),
                              batchSize |-> Some(IntNum(DEFAULT_BATCH_SIZE)),
                              maxBatches |-> Some(IntNum(DEFAULT_MAX_BATCHES))]])
              /\ calls' = calls + 1
              /\ lastCall' = [entry |-> "schedule", job |-> job, caller |-> caller,
                              accepted |-> TRUE]
              /\ UNCHANGED <<db, now, inv, prev, probe>>
       ELSE Rejected("schedule", job, caller)

backfillSkillSummaries(p, caller) == RunEntryPoint(p, "summaries", caller)

scheduleBackfillSkillSummaries(p, caller) == ScheduleEntryPoint(p, "summaries", caller)

backfillSkillFingerprints(p, caller) == RunEntryPoint(p, "fingerprints", caller)

scheduleBackfillSkillFingerprints(p, caller) == ScheduleEntryPoint(p, "fingerprints", caller)

\* the scheduler starts the job at the head of its queue
RunScheduled(p) ==
  /\ inv[p].pc \in {"idle"} \cup Finished
  /\ scheduled # <<>>
  /\ inv' = [inv EXCEPT ![p] =
       StartInvocation(scheduled[1].job, scheduled[1].args, db, prev)]
  /\ scheduled' = Tail(scheduled)
  /\ UNCHANGED <<db, now, calls, lastCall, prev, probe>>

----------------------------------------------------------------------------
(* Initial stores *)

FilesA ==
  <<[path |-> "SKILL.md", sha256 |-> "a", storageId |-> "blobA"],
    [path |-> "x.ts", sha256 |-> "b", storageId |-> "blobX"]>>

FilesSwapped ==
  <<[path |-> "x.ts", sha256 |-> "b", storageId |-> "blobX"],
    [path |-> "SKILL.md", sha256 |-> "a", storageId |-> "blobA"]>>

FilesB == <<[path |-> "Skills.MD", sha256 |-> "b", storageId |-> "blobB"]>>

FilesNoReadme == <<[path |-> "x.ts", sha256 |-> "b", storageId |-> "blobX"]>>

FilesMissingBlob == <<[path |-> "SKILL.md", sha256 |-> "c", storageId |-> "blobGone"]>>

HashOfStored(files) ==
  hashSkillFiles([k \in DOMAIN files |-> [path |-> files[k].path, sha256 |-> files[k].sha256]])

\* a fingerprint left behind by earlier content of a version
StaleFingerprint == hashSkillFiles(<<[path |-> "x.ts", sha256 |-> "c"]>>)

\* the state of one row: a skill with its latest version (latest reference,
\* files, summary, parsed metadata) and that version's fingerprint state
\* (the stored field and the fingerprints of its entries)
RowShapes ==
  <<[latest |-> "null", files |-> FilesA, summary |-> "Alpha", parsed |-> "ParsedA",
     stored |-> "none", entries |-> <<>>],
    [latest |-> "dangling", files |-> FilesA, summary |-> "Alpha", parsed |-> "ParsedA",
     stored |-> "stale", entries |-> <<"stale">>],
    [latest |-> "own", files |-> FilesNoReadme, summary |-> "Old", parsed |-> "ParsedOld",
     stored |-> "good", entries |-> <<"good", "stale">>],
    [latest |-> "own", files |-> FilesMissingBlob, summary |-> "Old", parsed |-> "ParsedOld",
     stored |-> "stale", entries |-> <<"good">>],
    [latest |-> "own", files |-> FilesA, summary |-> "Alpha", parsed |-> "ParsedA",
     stored |-> "good", entries |-> <<"good">>],
    [latest |-> "own", files |-> FilesA, summary |-> "Old", parsed |-> "ParsedOld",
     stored |-> "good", entries |-> <<"good", "good">>],
    [latest |-> "own", files |-> FilesA, summary |-> "Old", parsed |-> "ParsedA",
     stored |-> "none", entries |-> <<"stale">>],
    [latest |-> "own", files |-> FilesA, summary |-> "Alpha", parsed |-> "ParsedOld",
     stored |-> "none", entries |-> <<"good">>],
    [latest |-> "own", files |-> FilesB, summary |-> "Old", parsed |-> "ParsedOld",
     stored |-> "good", entries |-> <<>>]>>

FingerprintValue(kind, files) ==
  IF kind = "good" THEN HashOfStored(files) ELSE StaleFingerprint

RECURSIVE EntriesUpTo(_, _, _)
EntriesUpTo(shape, files, k) ==
  IF k = 0
    THEN <<>>
    ELSE LET before == EntriesUpTo(shape, files, k - 1)
         IN before \o [j \in 1..Len(shape[k].entries) |->
                         [id |-> Len(before) + j,
                          skillId |-> k,
                          versionId |-> k,
                          fingerprint |-> FingerprintValue(shape[k].entries[j], files[k]),
                          createdAt |-> 0]]

\* n skills, each with its one version; shape[k] gives the state of row k
Store(n, shape) ==
  LET files == [k \in 1..n |-> IF shape[k].files = FilesA /\ k % 2 = 0
                                 THEN FilesSwapped ELSE shape[k].files]
      entries == EntriesUpTo(shape, files, n)
  IN [skills |-> [k \in 1..n |->
        [id |-> k,
         latestVersionId |-> CASE shape[k].latest = "null" -> None
                               [] shape[k].latest = "dangling" -> Some(MaxRows + 1)
                               [] OTHER -> Some(k),
         summary |-> Some(shape[k].summary),
         updatedAt |-> 0]],
      skillVersions |-> [k \in 1..n |->
        [id |-> k,
         skillId |-> k,
         files |-> files[k],
         parsed |-> shape[k].parsed,
         fingerprint |-> IF shape[k].stored = "none"
                           THEN None
                           ELSE Some(FingerprintValue(shape[k].stored, files[k]))]],
      skillVersionFingerprints |-> entries,
      nextId |-> Len(entries) + 1]

\* the stores of at most MaxRows rows; rows are listed by shape, so that each
\* combination of shapes is taken once
InitialStores ==
  UNION {{Store(n, [k \in 1..n |-> RowShapes[pick[k]]]) :
            pick \in {f \in [1..n -> DOMAIN RowShapes] :
                        \A j \in 1..n, k \in 1..n : j <= k => f[j] <= f[k]}}
         : n \in 0..MaxRows}

\* no helper has been called directly
NoProbe == [fn |-> "none"]

Init ==
  /\ db \in InitialStores
  /\ now = 1
  /\ inv = [p \in Procs |-> IdleInvocation(db)]
  /\ scheduled = <<>>
  /\ calls = 0
  /\ lastCall = [entry |-> "none", job |-> "none", caller |-> "none", accepted |-> FALSE]
  /\ prev = NoOutcome
  /\ probe = NoProbe

----------------------------------------------------------------------------
(* One invocation at a time, started by entry-point calls or the scheduler *)

Next ==
  \/ \E caller \in Callers : backfillSkillSummaries("main", caller)
  \/ \E caller \in Callers : scheduleBackfillSkillSummaries("main", caller)
  \/ \E caller \in Callers : backfillSkillFingerprints("main", caller)
  \/ \E caller \in Callers : scheduleBackfillSkillFingerprints("main", caller)
  \/ RunScheduled("main")
  \/ FetchSkillPage("main")
  \/ ProcessSkillItem("main")
  \/ FetchFingerprintPage("main")
  \/ ProcessFingerprintItem("main")
  \/ NextBatch("main")
  \/ ReturnStats("main")
  \/ ThrowIncomplete("main")

Spec == Init /\ [][Next]_vars

----------------------------------------------------------------------------
(* A fingerprint run while another writer deletes versions *)

\* a writer outside the job deletes a version that invocation p has fetched
\* and not yet handled
ExternalDeleteVersion(p) ==
  LET r == inv[p] IN
  /\ r.pc = "items"
  /\ r.job = "fingerprints"
  /\ \E k \in r.idx..Len(r.items) :
       /\ DbGet(db.skillVersions, r.items[k].versionId) # None
       /\ db' = [db EXCEPT !.skillVersions =
                    SelectSeq(@, LAMBDA v : v.id # r.items[k].versionId)]
  /\ UNCHANGED <<now, inv, scheduled, calls, lastCall, prev, probe>>

DeletionNext ==
  \/ \E caller \in Callers : backfillSkillFingerprints("main", caller)
  \/ FetchFingerprintPage("main")
  \/ ProcessFingerprintItem("main")
  \/ NextBatch("main")
  \/ ReturnStats("main")
  \/ ThrowIncomplete("main")
  \/ ExternalDeleteVersion("main")

DeletionSpec == Init /\ [][DeletionNext]_vars

----------------------------------------------------------------------------
(* Two fingerprint runs at once: the steps of the two invocations interleave, *)
(* each page fetch and each patch application being one atomic step          *)

OverlapNext ==
  \E p \in Procs :
    \/ backfillSkillFingerprints(p, "admin")
    \/ FetchFingerprintPage(p)
    \/ ProcessFingerprintItem(p)
    \/ NextBatch(p)
    \/ ReturnStats(p)
    \/ ThrowIncomplete(p)

OverlapSpec == Init /\ [][OverlapNext]_vars

----------------------------------------------------------------------------
(* clampInt and the handlers' prologue called directly on numbers *)

\* finite fractions, NaN (0/0), +Infinity (n/0), -Infinity (-n/0), and the
\* numbers 500, -500, 0.9
ClampValues ==
  {[num |-> n, den |-> d] : n \in -MaxNum..MaxNum, d \in 0..MaxDen}
    \cup {IntNum(500), IntNum(-500), [num |-> 9, den |-> 10]}

\* min <= max; the bounds the handlers use are among them
ClampBounds ==
  {b \in (-MaxBound..MaxBound) \X (-MaxBound..MaxBound) : b[1] <= b[2]}
    \cup {<<1, MAX_BATCH_SIZE>>, <<1, MAX_MAX_BATCHES>>}

\* one direct call in a behaviour
ClampCall ==
  \E x \in ClampValues, b \in ClampBounds :
    /\ probe = NoProbe
    /\ probe' = [fn |-> "clampInt", value |-> x, min |-> b[1], max |-> b[2],
                 result |-> clampInt(x, b[1], b[2])]
    /\ UNCHANGED <<db, now, inv, scheduled, calls, lastCall, prev>>

\* the prologue of a handler on the arguments {batchSize: x, maxBatches: y}
PrologueCall ==
  \E x \in ClampValues, y \in {None} \cup {Some(v) : v \in ClampValues} :
    LET r == StartInvocation("summaries",
                             [dryRun |-> None, batchSize |-> Some(x), maxBatches |-> y],
                             db, prev)
    IN /\ probe = NoProbe
       /\ probe' = [fn |-> "prologue", value |-> x, other |-> y,
                    batchSize |-> r.batchSize, maxBatches |-> r.maxBatches]
       /\ UNCHANGED <<db, now, inv, scheduled, calls, lastCall, prev>>

ClampInit == Init /\ db.skills = <<>>

ClampNext == ClampCall \/ PrologueCall

ClampSpec == ClampInit /\ [][ClampNext]_vars

----------------------------------------------------------------------------
(* Properties *)

Started(r) == r.pc # "idle"

\* the fingerprint entries of a version in store d
VersionEntries(d, versionId) ==
  SelectSeq(d.skillVersionFingerprints, LAMBDA e : e.versionId = versionId)

\* the version has exactly one entry, the entry and the stored field equal hash(files)
Repaired(d, versionId) ==
  LET v == DbGet(d.skillVersions, versionId)
      es == VersionEntries(d, versionId)
  IN /\ v # None
     /\ v[1].fingerprint = Some(HashOfStored(v[1].files))
     /\ Len(es) = 1
     /\ es[1].fingerprint = HashOfStored(v[1].files)

\* 0 entries, more than 1 entry, or a stored fingerprint other than hash(files)
NeedsRepair(d, v) ==
  \/ Len(VersionEntries(d, v.id)) # 1
  \/ v.fingerprint # Some(HashOfStored(v.files))

\* the rows of the table the job pages over, at the start of the invocation
TotalRows(r) ==
  IF r.job = "summaries" THEN Len(r.startDb.skills) ELSE Len(r.startDb.skillVersions)

\* C1: after a completed non-dry-run fingerprint pass, every version that had
\* 0 entries, more than 1 entry or a stored fingerprint other than hash(files)
\* has exactly 1 entry equal to hash(files) and a stored fingerprint equal to
\* hash(files).
C1_RepairConvergence ==
  \A p \in Procs :
    LET r == inv[p] IN
    (r.pc = "done" /\ r.job = "fingerprints" /\ ~r.dryRun)
      => \A v \in Range(r.startDb.skillVersions) :
           NeedsRepair(r.startDb, v) => Repaired(db, v.id)

\* C2 as stated: a finished invocation returned {ok, stats} when the rows to
\* page over are at most batchSize * maxBatches, and raised the incompleteness
\* error otherwise.
C2_CompletionContract ==
  \A p \in Procs :
    LET r == inv[p] IN
    r.pc \in {"done", "failed"}
      => IF TotalRows(r) <= r.batchSize * r.maxBatches
           THEN r.pc = "done"
           ELSE r.pc = "failed"

\* C2, what the handlers guarantee: with fewer rows than batchSize * maxBatches
\* a finished invocation returned {ok, stats} after a page with isDone = true;
\* with more rows it raised the incompleteness error; with exactly
\* batchSize * maxBatches rows it returned iff the store reported isDone on
\* the last, full page.
C2_CompletionContractStrict ==
  \A p \in Procs :
    LET r == inv[p] IN
    r.pc \in {"done", "failed"}
      => /\ TotalRows(r) < r.batchSize * r.maxBatches
              => r.pc = "done" /\ r.isDone /\ r.error = ""
         /\ TotalRows(r) > r.batchSize * r.maxBatches
              => r.pc = "failed" /\ r.error = IncompleteError
         /\ TotalRows(r) = r.batchSize * r.maxBatches
              => (r.pc = "done") = r.isDone
         /\ r.batchSize \in 1..MAX_BATCH_SIZE
         /\ r.maxBatches \in 1..MAX_MAX_BATCHES

\* a run over a non-empty table that completed on a later page than the first
C2_Witness ==
  \E p \in Procs :
    LET r == inv[p] IN
    /\ r.pc = "done"
    /\ TotalRows(r) > 0
    /\ TotalRows(r) < r.batchSize * r.maxBatches
    /\ r.fetches > 1

\* C3: an invocation with dryRun = true has applied no patch and the store is
\* as it was when the invocation started, while it runs and after it has
\* returned or raised.
C3_DryRunNeverMutates ==
  \A p \in Procs :
    LET r == inv[p] IN
    (Started(r) /\ r.dryRun)
      => /\ r.applies = 0
         /\ db = r.startDb
         /\ \A k \in DOMAIN r.trace : ~r.trace[k].called

\* a dry run that raised the incompleteness error after counting a would-be patch
C3_Witness ==
  \E p \in Procs :
    LET r == inv[p] IN
    /\ r.pc = "failed"
    /\ r.dryRun
    /\ r.totals.versionsPatched > 0

\* r is a run of job, to completion, that started right after a run of the
\* same job with the same batch settings had returned its stats
FollowsCompletedRun(r, dryRunBefore, dryRunNow) ==
  /\ r.prior.outcome = "ok"
  /\ r.prior.job = r.job
  /\ r.prior.dryRun = dryRunBefore
  /\ r.prior.batchSize = r.batchSize
  /\ r.prior.maxBatches = r.maxBatches
  /\ r.dryRun = dryRunNow

\* C4: the would-patch counters returned by a dry run (skillsPatched and
\* versionsPatched of the summary job, versionsPatched and fingerprintsInserted
\* of the fingerprint job) equal those returned by the real run that is
\* started right after it on the same store with the same batch settings.
C4_DryRunStatsEqualRealRun ==
  \A p \in Procs :
    LET r == inv[p] IN
    (r.pc = "done" /\ FollowsCompletedRun(r, TRUE, FALSE))
      => /\ r.totals.versionsPatched = r.prior.stats.versionsPatched
         /\ r.job = "summaries"
              => r.totals.skillsPatched = r.prior.stats.skillsPatched
         /\ r.job = "fingerprints"
              => r.totals.fingerprintsInserted = r.prior.stats.fingerprintsInserted

\* a real run over more than one page that patched something, after a dry run
C4_Witness ==
  \E p \in Procs :
    LET r == inv[p] IN
    /\ r.pc = "done"
    /\ FollowsCompletedRun(r, TRUE, FALSE)
    /\ r.fetches > 1
    /\ r.applies > 0
    /\ r.totals.versionsPatched > 0

\* C5: a real summary run that follows a completed real summary run counts no
\* skill and no version as patched and applies no patch.
C5_SummaryIdempotence ==
  \A p \in Procs :
    LET r == inv[p] IN
    (Started(r) /\ r.job = "summaries" /\ FollowsCompletedRun(r, FALSE, FALSE))
      => /\ r.totals.skillsPatched = 0
         /\ r.totals.versionsPatched = 0
         /\ r.applies = 0
         /\ db = r.startDb

\* the second real summary run has completed after a first one that patched
\* both a summary and a version's parsed metadata
C5_Witness ==
  \E p \in Procs :
    LET r == inv[p] IN
    /\ r.pc = "done"
    /\ r.job = "summaries"
    /\ FollowsCompletedRun(r, FALSE, FALSE)
    /\ r.prior.stats.skillsPatched > 0
    /\ r.prior.stats.versionsPatched > 0
    /\ r.totals.skillsScanned > 0

\* the counters a fingerprint item may raise besides versionsScanned
FingerprintWork(totals) ==
  <<totals.versionsPatched, totals.fingerprintsInserted, totals.fingerprintMismatches>>

\* C6: a version whose stored fingerprint is hash(files) and whose single
\* entry is hash(files) is left as it is by a fingerprint run, dry or not, with
\* its entries, and raises none of versionsPatched, fingerprintsInserted,
\* fingerprintMismatches: the fetcher does not emit it.
C6_CorrectVersionUntouched ==
  \A p \in Procs :
    LET r == inv[p] IN
    (Started(r) /\ r.job = "fingerprints")
      => \A v \in Range(r.startDb.skillVersions) :
           Repaired(r.startDb, v.id)
             => /\ DbGet(db.skillVersions, v.id) = Some(v)
                /\ VersionEntries(db, v.id) = VersionEntries(r.startDb, v.id)
                /\ \A k \in DOMAIN r.trace :
                     r.trace[k].id = v.id
                       => /\ ~r.trace[k].called
                          /\ FingerprintWork(r.trace[k].after)
                               = FingerprintWork(r.trace[k].before)
                /\ \A k \in DOMAIN r.items : r.items[k].versionId # v.id

\* a real fingerprint run completed on a store that held a correct version
\* and a version it repaired
C6_Witness ==
  \E p \in Procs :
    LET r == inv[p] IN
    /\ r.pc = "done"
    /\ r.job = "fingerprints"
    /\ ~r.dryRun
    /\ r.applies > 0
    /\ \E v \in Range(r.startDb.skillVersions) : Repaired(r.startDb, v.id)

\* C7: an entry-point call by a caller who is not an authenticated admin is
\* rejected and changes nothing: no invocation starts (so no page is fetched
\* and no patch applied) and nothing is enqueued on the scheduler; an accepted
\* call was made by an admin.
C7_AuthorizationGate ==
  [][calls' # calls
       => /\ lastCall'.accepted => lastCall'.caller = "admin"
          /\ lastCall'.caller # "admin"
               => /\ ~lastCall'.accepted
                  /\ UNCHANGED <<db, now, inv, scheduled, prev>>]_vars

\* a schedule call by an authenticated non-admin user has been rejected, after
\* an admin's run had completed
C7_Witness ==
  /\ lastCall.entry = "schedule"
  /\ lastCall.caller = "user"
  /\ ~lastCall.accepted
  /\ calls = MaxCalls
  /\ prev.outcome = "ok"

\* the orchestrator in slot p can take a step: a fetch gets its page, a page
\* that is not finished has its next item, and after a finished page one of
\* next batch, return and throw is enabled
CanStep(p) ==
  LET r == inv[p] IN
  CASE r.pc = "fetch" ->
         IsDoneChoices(IF r.job = "summaries" THEN db.skills ELSE db.skillVersions,
                       r.cursor, r.batchSize) # {}
    [] PageFinished(r) ->
         ENABLED (NextBatch(p) \/ ReturnStats(p) \/ ThrowIncomplete(p))
    [] OTHER -> r.idx \in DOMAIN r.items

\* C8: an invocation fetches at most maxBatches pages, maxBatches being in
\* 1..200; it fetches no page after a page that reported isDone; it is never
\* stuck before it has returned or raised; it returns only after a fetched
\* page reported isDone and raises the incompleteness error only after
\* maxBatches pages none of which reported isDone; either way it has fetched
\* at least one page.
C8_BoundedScan ==
  \A p \in Procs :
    LET r == inv[p] IN
    Started(r)
      => /\ r.maxBatches \in 1..MAX_MAX_BATCHES
         /\ r.fetches <= r.maxBatches
         /\ r.pc = "fetch" => ~r.isDone /\ r.fetches = r.i /\ r.i < r.maxBatches
         /\ r.pc = "items" => r.fetches = r.i + 1 /\ r.idx \in 1..(Len(r.items) + 1)
         /\ r.pc \in {"fetch", "items"} => CanStep(p)
         /\ r.pc \in {"done", "failed"} => r.fetches >= 1 /\ r.fetches = r.i + 1
         /\ r.pc = "done" => r.isDone /\ r.error = ""
         /\ r.pc = "failed" => /\ ~r.isDone
                               /\ r.error = IncompleteError
                               /\ r.fetches = r.maxBatches

\* one invocation returned after two pages, the second of which reported isDone
C8_Witness ==
  \E p \in Procs :
    LET r == inv[p] IN
    /\ r.pc = "done"
    /\ r.fetches = 2
    /\ r.maxBatches = 2
    /\ Len(r.trace) > 0

\* the patch applied for trace entry e is in store d
PatchInStore(job, e, d) ==
  IF job = "fingerprints"
    THEN LET v == DbGet(d.skillVersions, e.id)
             es == VersionEntries(d, e.id)
         IN /\ v # None
            /\ v[1].fingerprint = Some(e.patch.fingerprint)
            /\ Len(es) = 1
            /\ es[1].fingerprint = e.patch.fingerprint
    ELSE LET skill == DbGet(d.skills, e.id)
             version == DbGet(d.skillVersions, skill[1].latestVersionId[1])
         IN /\ e.patch.summary # None => skill[1].summary = e.patch.summary
            /\ e.patch.parsed # None => version[1].parsed = e.patch.parsed[1]

\* the rows of the paginated table an invocation has read
RowsRead(r) == Min2(TotalRows(r), r.batchSize * r.fetches)

\* C9: when a real run has raised the incompleteness error, every item of the
\* pages it fetched has been handled, every patch it applied is in the store,
\* and the store differs from the store at the start whenever a patch was
\* applied.
C9_NoRollbackOnIncomplete ==
  \A p \in Procs :
    LET r == inv[p] IN
    (r.pc = "failed" /\ ~r.dryRun)
      => /\ r.idx = Len(r.items) + 1
         /\ r.job = "summaries" => Len(r.trace) = RowsRead(r)
         /\ r.job = "summaries" => r.totals.skillsScanned = RowsRead(r)
         /\ r.job = "fingerprints" => r.totals.versionsScanned = Len(r.trace)
         /\ r.applies = Cardinality({k \in DOMAIN r.trace : r.trace[k].called})
         /\ \A k \in DOMAIN r.trace :
              r.trace[k].called
                => r.trace[k].result = "ok" /\ PatchInStore(r.job, r.trace[k], db)
         /\ r.applies > 0 => db # r.startDb

\* a real run raised the incompleteness error after applying a patch
C9_Witness ==
  \E p \in Procs :
    LET r == inv[p] IN
    /\ r.pc = "failed"
    /\ ~r.dryRun
    /\ r.applies > 0
    /\ db # r.startDb

\* the version has no fingerprint entry and no stored fingerprint
Fresh(d, v) == v.fingerprint = None /\ VersionEntries(d, v.id) = <<>>

\* C10: a version without entries and without a stored fingerprint has, after
\* a completed real fingerprint run, exactly one entry, equal to hash(files),
\* and a stored fingerprint equal to hash(files); it was handled once and
\* raised fingerprintsInserted by 1, versionsPatched by 1 and
\* fingerprintMismatches by 0.
C10_FreshVersion ==
  \A p \in Procs :
    LET r == inv[p] IN
    (r.pc = "done" /\ r.job = "fingerprints" /\ ~r.dryRun)
      => \A v \in Range(r.startDb.skillVersions) :
           Fresh(r.startDb, v)
             => /\ Repaired(db, v.id)
                /\ Cardinality({k \in DOMAIN r.trace : r.trace[k].id = v.id}) = 1
                /\ \A k \in DOMAIN r.trace :
                     r.trace[k].id = v.id
                       => /\ r.trace[k].called
                          /\ r.trace[k].after.fingerprintsInserted
                               = r.trace[k].before.fingerprintsInserted + 1
                          /\ r.trace[k].after.versionsPatched
                               = r.trace[k].before.versionsPatched + 1
                          /\ r.trace[k].after.fingerprintMismatches
                               = r.trace[k].before.fingerprintMismatches

\* a completed real fingerprint run on a store that held a fresh version with
\* the files SKILL.md / x.ts
C10_Witness ==
  \E p \in Procs :
    LET r == inv[p] IN
    /\ r.pc = "done"
    /\ r.job = "fingerprints"
    /\ ~r.dryRun
    /\ \E v \in Range(r.startDb.skillVersions) :
         /\ Fresh(r.startDb, v)
         /\ v.files = FilesA
         /\ Repaired(db, v.id)

\* the skill has no latest version, or the version it names is not in the store
LatestVersionMissing(d, skill) ==
  \/ skill.latestVersionId = None
  \/ \A k \in DOMAIN d.skillVersions : d.skillVersions[k].id # skill.latestVersionId[1]

\* the skill's latest version is in the store and has no skill.md / skills.md
ReadmeMissing(d, skill) ==
  /\ ~LatestVersionMissing(d, skill)
  /\ \A v \in Range(d.skillVersions) :
       v.id = skill.latestVersionId[1]
         => \A k \in DOMAIN v.files :
              ToLowerCase(v.files[k].path) \notin {"skill.md", "skills.md"}

\* C11: in a summary run a scanned skill without latest version, or whose
\* version record is absent, raises skillsScanned and missingLatestVersion by
\* 1 and nothing else, and no patch is applied for it; a skill whose version
\* has no skill.md / skills.md raises skillsScanned and missingReadme by 1 and
\* nothing else, and no patch is applied for it.
C11_MissingDataCounted ==
  \A p \in Procs :
    LET r == inv[p] IN
    (Started(r) /\ r.job = "summaries")
      => \A k \in DOMAIN r.trace :
           LET e == r.trace[k]
               skill == DbGet(r.startDb.skills, e.id)[1]
           IN /\ LatestVersionMissing(r.startDb, skill)
                   => /\ e.after = [e.before EXCEPT !.skillsScanned = @ + 1,
                                                     !.missingLatestVersion = @ + 1]
                      /\ ~e.called
                      /\ DbGet(db.skills, e.id) = Some(skill)
              /\ ReadmeMissing(r.startDb, skill)
                   => /\ e.after = [e.before EXCEPT !.skillsScanned = @ + 1,
                                                     !.missingReadme = @ + 1]
                      /\ ~e.called
                      /\ DbGet(db.skills, e.id) = Some(skill)

\* a completed real summary run scanned a skill whose version record is absent
\* and a skill whose version has no readme
C11_Witness ==
  \E p \in Procs :
    LET r == inv[p] IN
    /\ r.pc = "done"
    /\ r.job = "summaries"
    /\ ~r.dryRun
    /\ \E k \in DOMAIN r.trace :
         LET skill == DbGet(r.startDb.skills, r.trace[k].id)[1]
         IN skill.latestVersionId # None /\ LatestVersionMissing(r.startDb, skill)
    /\ \E k \in DOMAIN r.trace :
         ReadmeMissing(r.startDb, DbGet(r.startDb.skills, r.trace[k].id)[1])

\* t is x truncated toward zero, x finite
IsTruncation(t, x) ==
  IF x.num >= 0
    THEN t >= 0 /\ t * x.den <= x.num /\ x.num < (t + 1) * x.den
    ELSE t <= 0 /\ (t - 1) * x.den < x.num /\ x.num <= t * x.den

Magnitude(n) == IF n >= 0 THEN n ELSE -n

\* C12: for min <= max, clampInt(x, min, max) is min when x is NaN or an
\* infinity and otherwise x truncated toward zero and limited to min..max;
\* the result always lies in min..max (500 gives 200, 0.9 gives 1 and NaN
\* gives 1 for the bounds 1..200); the batchSize and maxBatches a handler
\* works with are integers in 1..200.
C12_ClampInt ==
  /\ probe.fn = "clampInt"
       => /\ probe.result \in probe.min..probe.max
          /\ probe.value.den = 0 => probe.result = probe.min
          /\ probe.value.den > 0
               => \E t \in -Magnitude(probe.value.num)..Magnitude(probe.value.num) :
                    /\ IsTruncation(t, probe.value)
                    /\ probe.result = (IF t < probe.min THEN probe.min
                                       ELSE IF t > probe.max THEN probe.max ELSE t)
          /\ (probe.min = 1 /\ probe.max = 200 /\ probe.value = IntNum(500))
               => probe.result = 200
          /\ (probe.min = 1 /\ probe.max = 200 /\ probe.value = [num |-> 9, den |-> 10])
               => probe.result = 1
          /\ (probe.min = 1 /\ probe.max = 200 /\ probe.value = [num |-> 0, den |-> 0])
               => probe.result = 1
  /\ probe.fn = "prologue"
       => probe.batchSize \in 1..200 /\ probe.maxBatches \in 1..200
  /\ \A p \in Procs :
       Started(inv[p]) => inv[p].batchSize \in 1..200 /\ inv[p].maxBatches \in 1..200

\* clampInt was called on a negative fraction below -1 with bounds that
\* contain its truncation
C12_Witness ==
  /\ probe.fn = "clampInt"
  /\ probe.value = [num |-> -3, den |-> 2]
  /\ probe.min = -2
  /\ probe.max = 2
  /\ probe.result = -1

\* the step handles an item of p's page and adds entry Last(p)' to the trace
HandlesItem(p) == Len(inv'[p].trace) = Len(inv[p].trace) + 1

\* C13: when the fingerprint applier is called for a version that is no
\* longer in the store, it returns missingVersion and changes nothing in the
\* store; the orchestrator keeps the versionsPatched / fingerprintsInserted
\* increments made for the item and goes on to the next item.
C13_MissingVersionAtApply ==
  [][\A p \in Procs :
       LET r == inv[p]
           e == inv'[p].trace[Len(inv'[p].trace)]
       IN (/\ r.job = "fingerprints"
           /\ HandlesItem(p)
           /\ e.called
           /\ \A v \in Range(db.skillVersions) : v.id # e.id)
            => /\ e.result = "missingVersion"
               /\ db' = db
               /\ e.after.versionsPatched
                    = r.totals.versionsPatched + (IF e.patch.shouldPatchVersion THEN 1 ELSE 0)
               /\ e.after.fingerprintsInserted
                    = r.totals.fingerprintsInserted
                        + (IF e.patch.shouldReplaceEntries THEN 1 ELSE 0)
               /\ e.after.versionsPatched + e.after.fingerprintsInserted
                    > r.totals.versionsPatched + r.totals.fingerprintsInserted
               /\ inv'[p].totals = e.after
               /\ inv'[p].pc = "items"
               /\ inv'[p].idx = r.idx + 1]_vars

\* a real run returned its stats after the applier had reported a missing
\* version for one item and patched the item after it
C13_Witness ==
  \E p \in Procs :
    LET r == inv[p] IN
    /\ r.pc = "done"
    /\ \E k \in DOMAIN r.trace :
         /\ r.trace[k].result = "missingVersion"
         /\ k + 1 \in DOMAIN r.trace
         /\ r.trace[k + 1].result = "ok"
         /\ r.totals.versionsPatched + r.totals.fingerprintsInserted
              >= r.trace[k + 1].after.versionsPatched
                   + r.trace[k + 1].after.fingerprintsInserted

\* the entries of store d whose id is in ids
EntriesWithId(d, ids) == {e \in Range(d.skillVersionFingerprints) : e.id \in ids}

\* C14: a call of the fingerprint applier for a version that is in the store,
\* with replaceEntries true, removes every listed entry and adds exactly one
\* entry, with the version's id and skillId and the given fingerprint; with
\* replaceEntries false the entries stay as they are; the version's
\* fingerprint field becomes the given fingerprint iff patchVersion is true.
C14_FingerprintApplierEffect ==
  [][\A p \in Procs :
       LET r == inv[p]
           e == inv'[p].trace[Len(inv'[p].trace)]
           listed == {r.items[r.idx].existingEntries[k].id :
                        k \in DOMAIN r.items[r.idx].existingEntries}
           added == EntryIds(db') \ EntryIds(db)
       IN (/\ r.job = "fingerprints"
           /\ HandlesItem(p)
           /\ e.called
           /\ DbGet(db.skillVersions, e.id) # None)
            => LET version == DbGet(db.skillVersions, e.id)[1] IN
               /\ e.patch.shouldReplaceEntries
                    => /\ EntriesWithId(db', listed) = {}
                       /\ EntriesWithId(db', EntryIds(db) \ listed)
                            = EntriesWithId(db, EntryIds(db) \ listed)
                       /\ Cardinality(added) = 1
                       /\ \A n \in EntriesWithId(db', added) :
                            /\ n.versionId = version.id
                            /\ n.skillId = version.skillId
                            /\ n.fingerprint = e.patch.fingerprint
               /\ ~e.patch.shouldReplaceEntries
                    => db'.skillVersionFingerprints = db.skillVersionFingerprints
               /\ DbGet(db'.skillVersions, e.id)[1].fingerprint
                    = IF e.patch.shouldPatchVersion
                        THEN Some(e.patch.fingerprint) ELSE version.fingerprint]_vars

\* both invocations are real fingerprint runs that have ended
BothEnded ==
  \A p \in Procs :
    inv[p].pc \in Finished /\ inv[p].job = "fingerprints" /\ ~inv[p].dryRun

\* C18: when two real fingerprint runs overlapped and both have ended, every
\* version that both handled has exactly one entry, equal to hash(files), and
\* a stored fingerprint equal to hash(files), and no patch application of
\* either run failed.
C18_OverlapPreservesTarget ==
  BothEnded
    => /\ \A p \in Procs :
            /\ inv[p].pc # "threw"
            /\ \A k \in DOMAIN inv[p].trace : inv[p].trace[k].result \in {"ok", "none"}
       /\ \A v \in Range(db.skillVersions) :
            (\A p \in Procs : \E k \in DOMAIN inv[p].trace : inv[p].trace[k].id = v.id)
              => Repaired(db, v.id)

\* C15: a call of the summary applier overwrites the skill's summary and sets
\* updatedAt to the current time iff a summary is given, overwrites the
\* version's parsed metadata iff parsed is given, and leaves every other
\* skill, version and fingerprint entry as it was.
C15_SummaryApplierEffect ==
  [][\A p \in Procs :
       LET r == inv[p]
           e == inv'[p].trace[Len(inv'[p].trace)]
           item == r.items[r.idx]
       IN (r.job = "summaries" /\ HandlesItem(p) /\ e.called)
            => /\ Len(db'.skills) = Len(db.skills)
               /\ \A k \in DOMAIN db.skills :
                    db'.skills[k] =
                      IF db.skills[k].id = item.skillId /\ e.patch.summary # None
                        THEN [db.skills[k] EXCEPT !.summary = e.patch.summary,
                                                  !.updatedAt = now]
                        ELSE db.skills[k]
               /\ Len(db'.skillVersions) = Len(db.skillVersions)
               /\ \A k \in DOMAIN db.skillVersions :
                    db'.skillVersions[k] =
                      IF db.skillVersions[k].id = item.versionId /\ e.patch.parsed # None
                        THEN [db.skillVersions[k] EXCEPT !.parsed = e.patch.parsed[1]]
                        ELSE db.skillVersions[k]
               /\ db'.skillVersionFingerprints = db.skillVersionFingerprints]_vars

\* a real summary run has applied a patch with parsed metadata and no summary,
\* and the skill's updatedAt is still older than the call
C15_Witness ==
  LET r == inv["main"] IN
  /\ r.job = "summaries"
  /\ r.trace # <<>>
  /\ LET e == r.trace[Len(r.trace)] IN
       /\ e.called
       /\ e.patch.summary = None
       /\ e.patch.parsed # None
       /\ \E k \in DOMAIN db.skills :
            /\ db.skills[k].id = e.id
            /\ db.skills[k].updatedAt < now - 1
            /\ db.skills[k] = r.startDb.skills[k]
       /\ db.skillVersions # r.startDb.skillVersions

\* the applier calls of invocation r whose patch carries the given field
CallsWriting(r, field) ==
  {k \in DOMAIN r.trace : r.trace[k].called /\ r.trace[k].patch[field] # None}

PageFor(r, d, cursor, done) ==
  IF r.job = "summaries"
    THEN getSkillBackfillPageInternal(d, cursor, Some(IntNum(r.batchSize)), done)
    ELSE getSkillFingerprintBackfillPageInternal(d, cursor, Some(IntNum(r.batchSize)), done)

\* invocation p fetches a page in this step
FetchesPage(p) ==
  inv[p].pc = "fetch" /\ inv'[p].pc = "items" /\ inv'[p].fetches = inv[p].fetches + 1

\* C17: within one invocation the first page fetch uses the null cursor; a
\* later fetch happens only when every item of the page before it has been
\* handled, its patch application included, and uses the cursor that fetch
\* returned, which nothing but a fetch changes; no step of an invocation makes
\* more than one page fetch or patch application.
C17_SequentialCursorChain ==
  [][\A p \in Procs :
       LET r == inv[p]
           q == inv'[p]
       IN /\ q.fetches = 0 => q.cursor = None
          /\ FetchesPage(p)
               => /\ r.fetches = 0 => r.cursor = None /\ r.trace = <<>>
                  /\ r.fetches > 0 => r.idx = Len(r.items) + 1
                                       /\ Len(r.trace) >= Len(r.items)
                  /\ q = [r EXCEPT !.pc = "items",
                                    !.fetches = r.fetches + 1,
                                    !.idx = 1,
                                    !.items = PageFor(r, db, r.cursor, q.isDone).items,
                                    !.cursor = PageFor(r, db, r.cursor, q.isDone).cursor,
                                    !.isDone = q.isDone]
                  /\ db' = db
          /\ (Started(r) /\ q.fetches >= r.fetches /\ q.job = r.job /\ ~FetchesPage(p))
               => /\ q.cursor = r.cursor
                  /\ q.fetches = r.fetches
                  /\ q.applies \in {r.applies, r.applies + 1}
                  /\ q.applies = r.applies + 1 => HandlesItem(p) /\ q.idx = r.idx + 1]_vars

\* a second page has been fetched with the cursor of the first, after the
\* first page's item was handled with a patch application
C17_Witness ==
  LET r == inv["main"] IN
  /\ r.fetches = 2
  /\ r.pc = "items"
  /\ r.idx = 1
  /\ r.items # <<>>
  /\ r.applies = 1
  /\ Len(r.trace) = 1
  /\ r.cursor # None

\* C19: every item the fingerprint page fetcher emits gets shouldPatchVersion
\* or shouldReplaceEntries from the orchestrator, so no handled item is
\* skipped as needing no correction, and the totals of a run satisfy
\* fingerprintMismatches <= versionsScanned <= versionsPatched +
\* fingerprintsInserted, versionsPatched <= versionsScanned and
\* fingerprintsInserted <= versionsScanned.
C19_EmittedItemsCorrected ==
  \A p \in Procs :
    LET r == inv[p]
        t == r.totals
    IN (r.job = "fingerprints" /\ Started(r))
         => /\ \A k \in DOMAIN r.items :
                 \/ FingerprintVerdict(r.items[k]).shouldPatchVersion
                 \/ FingerprintVerdict(r.items[k]).shouldReplaceEntries
            /\ \A k \in DOMAIN r.trace :
                 LET e == r.trace[k] IN
                 /\ e.patch.shouldPatchVersion \/ e.patch.shouldReplaceEntries
                 /\ e.after.versionsPatched + e.after.fingerprintsInserted
                      > e.before.versionsPatched + e.before.fingerprintsInserted
            /\ t.versionsScanned = Len(r.trace)
            /\ t.fingerprintMismatches <= t.versionsScanned
            /\ t.versionsScanned <= t.versionsPatched + t.fingerprintsInserted
            /\ t.versionsPatched <= t.versionsScanned
            /\ t.fingerprintsInserted <= t.versionsScanned

\* a run has handled an item emitted for a mismatch alone (stored fingerprint
\* present, entries present) by replacing the entries alone, and another by
\* patching the version alone
C19_Witness ==
  LET r == inv["main"]
      t == r.totals
  IN /\ r.job = "fingerprints"
     /\ r.pc \in Finished
     /\ t.versionsScanned = 2
     /\ t.fingerprintMismatches = 1
     /\ t.versionsPatched = 1
     /\ t.fingerprintsInserted = 1
     /\ \E k \in DOMAIN r.trace :
          r.trace[k].patch.shouldReplaceEntries /\ ~r.trace[k].patch.shouldPatchVersion
     /\ \E k \in DOMAIN r.trace :
          r.trace[k].patch.shouldPatchVersion /\ ~r.trace[k].patch.shouldReplaceEntries

\* the table invocation r pages over, in store d
ScanTable(r, d) == IF r.job = "summaries" THEN d.skills ELSE d.skillVersions

\* the place of the record with that id in the scan order
Position(table, id) == CHOOSE k \in DOMAIN table : table[k].id = id

\* the records one invocation can reach: batchSize * maxBatches
Budget(r) == r.batchSize * r.maxBatches

\* the id of the scanned record an item stands for
ItemId(r, item) == IF r.job = "summaries" THEN item.skillId ELSE item.versionId

\* C20: every invocation, run directly or by the scheduler, after a failed
\* one or not, starts at the null cursor; a record placed after the first
\* batchSize * maxBatches records of the scan order is never among the
\* fetched or handled items and no step of the invocation changes it, its
\* version or its fingerprint entries; and an invocation over a table with
\* such a record ends with the incompleteness error.
C20_NoResumption ==
  [][\A p \in Procs :
       LET r == inv[p]
           q == inv'[p]
           table == ScanTable(r, db)
       IN /\ (Started(q) /\ q.fetches = 0) => q.cursor = None /\ q.i = 0
          /\ r.pc \in {"fetch", "items"}
               => /\ \A k \in DOMAIN q.items :
                       Position(table, ItemId(q, q.items[k])) <= Budget(r)
                  /\ \A k \in DOMAIN q.trace :
                       Position(table, q.trace[k].id) <= Budget(r)
                  /\ \A k \in DOMAIN table :
                       k > Budget(r)
                         => /\ ScanTable(r, db')[k] = table[k]
                            /\ r.job = "summaries" /\ table[k].latestVersionId # None
                                 => DbGet(db'.skillVersions, table[k].latestVersionId[1])
                                      = DbGet(db.skillVersions, table[k].latestVersionId[1])
                            /\ r.job = "fingerprints"
                                 => VersionEntries(db', table[k].id)
                                      = VersionEntries(db, table[k].id)
                  /\ (q.pc \in Finished /\ Len(table) > Budget(r))
                       => q.pc = "failed" /\ q.error = IncompleteError]_vars

\* a real fingerprint run has failed as the run before it did, with the same
\* batch setting; the earlier run patched a version, and the version after
\* the budget still lacks its fingerprint
C20_Witness ==
  LET r == inv["main"] IN
  /\ r.job = "fingerprints"
  /\ ~r.dryRun
  /\ r.pc = "failed"
  /\ r.prior.outcome = "error"
  /\ ~r.prior.dryRun
  /\ r.prior.stats.versionsPatched >= 1
  /\ r.totals.versionsScanned = 0
  /\ Len(db.skillVersions) > Budget(r)
  /\ \E k \in DOMAIN db.skillVersions :
       k > Budget(r) /\ db.skillVersions[k].fingerprint = None

====
